---- MODULE Spec2Model ----
(***************************************************************************)
(* Model of the family_portfolio valuation scripts.                        *)
(*                                                                         *)
(*   src/portfolio/portfolio8.py : load_prices_and_sector,                 *)
(*                                 calculate_portfolio                     *)
(*   src/portfolio8.py           : load_prices_and_sector, apply_trades    *)
(*                                                                         *)
(* One behaviour is one run of one of three operations, selected by the    *)
(* initial value of pc:                                                    *)
(*   "load"   the per-ticker loop of load_prices_and_sector                *)
(*   "calc"   calculate_portfolio over a holdings table                    *)
(*   "trades" apply_trades over a holdings table and a trade ledger        *)
(*                                                                         *)
(* Numbers.  Share counts, prices and FX rates are integers.  The money    *)
(* columns of calculate_portfolio are carried in units of 1/FEE_RATE_DEN   *)
(* so that the fee (buy_price * shares * 0.00495) is exact.  A pandas cell *)
(* that can be missing (None / NaN) is an option record; the result of a   *)
(* float division is a tagged value that keeps NaN and the infinities.     *)
(***************************************************************************)
EXTENDS Integers, Sequences, FiniteSets, TLC

VARIABLES
    pc,            \* position of the run
    hist_out,      \* provider: ticker -> last close, or none when the lookup raises
    info_out,      \* provider: ticker -> outcome of the .info lookup
    usd_jpy,       \* FX_TO_JPY["USD"]
    variant,       \* which load_prices_and_sector is running ("new" / "old")
    tickers,       \* load_prices_and_sector: the ticker list passed in
    li,            \* load_prices_and_sector: index of the ticker visited next
    prices,        \* load_prices_and_sector: dict prices
    sectors,       \* load_prices_and_sector: dict sectors
    df,            \* calculate_portfolio: the holdings table (sequence of rows)
    df_portfolio,  \* apply_trades: the holdings table
    df_trades,     \* apply_trades: the trade ledger (sorted once the run started)
    has_action,    \* apply_trades: the ledger has an "action" column
    holdings,      \* apply_trades: dict ticker -> replayed share count
    history,       \* apply_trades: list of daily totals
    day            \* apply_trades: the date being valued

vars == << pc, hist_out, info_out, usd_jpy, variant, tickers, li, prices, sectors,
           df, df_portfolio, df_trades, has_action, holdings, history, day >>

loadVars   == << variant, tickers, li, prices, sectors >>
calcVars   == << df >>
tradeVars  == << df_portfolio, df_trades, has_action, holdings, history, day >>
worldVars  == << hist_out, info_out, usd_jpy >>

----------------------------------------------------------------------------
(* Bounds of the model *)

MaxShares == 1      \* calculate_portfolio: shares of a holding row are 0..MaxShares
MaxDay    == 2      \* trade dates are days 1..MaxDay; today is day MaxDay
MaxQty    == 2      \* shares of one trade are 1..MaxQty

----------------------------------------------------------------------------
(* Optional values (None / NaN) *)

Some(v) == [some |-> TRUE, val |-> v]
None    == [some |-> FALSE, val |-> 0]

\* pandas arithmetic on cells that may be NaN
OptMul(a, b) == IF a.some /\ b.some THEN Some(a.val * b.val) ELSE None
OptSub(a, b) == IF a.some /\ b.some THEN Some(a.val - b.val) ELSE None

\* float division a / b * 100 as pandas computes it: x/0 is +-inf, 0/0 is NaN.
\* Num(n, d) is the percentage (n / d) * 100, kept as the exact ratio n / d.
Num(n, d) == [kind |-> "num", num |-> n, den |-> d]
NaN       == [kind |-> "nan", num |-> 0, den |-> 1]
Inf       == [kind |-> "inf", num |-> 0, den |-> 1]
NegInf    == [kind |-> "-inf", num |-> 0, den |-> 1]

FloatPct(a, b) ==
    IF ~a.some \/ ~b.some THEN NaN
    ELSE IF b.val # 0 THEN Num(a.val, b.val)
    ELSE IF a.val > 0 THEN Inf
    ELSE IF a.val < 0 THEN NegInf
    ELSE NaN

----------------------------------------------------------------------------
(* Configuration *)

FEE_RATE_NUM == 495
FEE_RATE_DEN == 100000

UsdRates   == {150, 155}            \* live USD/JPY rate, or the 155 fallback
Currencies == {"USD", "JPY", "EUR"} \* EUR is not a key of FX_TO_JPY

FX_TO_JPY == [c \in {"USD", "JPY"} |-> IF c = "USD" THEN usd_jpy ELSE 1]

\* faulty variant: an unknown currency converts to nothing
FxGetBroken(currency) ==
    IF currency \in DOMAIN FX_TO_JPY THEN FX_TO_JPY[currency] ELSE 0

\* FX_TO_JPY.get(currency, 1)  /  df["currency"].map(FX_TO_JPY).fillna(1.0)
FxGet(currency) ==
    IF currency \in DOMAIN FX_TO_JPY THEN FX_TO_JPY[currency] ELSE 1

----------------------------------------------------------------------------
(* The price / sector provider (yfinance) *)

Tickers       == {"AAA", "BTC-USD"}
CryptoTickers == {"BTC-USD"}        \* the tickers t with t.endswith("-USD")
Closes        == {21}
InfoOutcomes  == {"raises", "notdict", "nosector", "Tech"}

HistOutcomes == {None} \cup {Some(p) : p \in Closes}

\* body of the loop of load_prices_and_sector, src/portfolio/portfolio8.py:
\* the pair (prices[t], sectors[t]) it leaves behind
LookupNew(t) ==
    IF ~hist_out[t].some THEN << None, "Unknown" >>
    ELSE IF t \in CryptoTickers THEN << hist_out[t], "Crypto" >>
    ELSE IF info_out[t] = "raises" THEN << None, "Unknown" >>
    ELSE IF info_out[t] \in {"notdict", "nosector"} THEN << hist_out[t], "Unknown" >>
    ELSE << hist_out[t], info_out[t] >>

\* the same loop body in src/portfolio8.py: no crypto rule, and .info.get on
\* something that is not a dict raises inside the try
LookupOld(t) ==
    IF ~hist_out[t].some THEN << None, "Unknown" >>
    ELSE IF info_out[t] \in {"raises", "notdict"} THEN << None, "Unknown" >>
    ELSE IF info_out[t] = "nosector" THEN << hist_out[t], "Unknown" >>
    ELSE << hist_out[t], info_out[t] >>

Lookup(t) == IF variant = "new" THEN LookupNew(t) ELSE LookupOld(t)

\* a lookup of t raised inside the try block
LookupFailed(t) ==
    \/ ~hist_out[t].some
    \/ /\ variant = "new"
       /\ t \notin CryptoTickers
       /\ info_out[t] = "raises"
    \/ /\ variant = "old"
       /\ info_out[t] \in {"raises", "notdict"}

\* ticker lists without repetition (the caller passes .unique())
RECURSIVE SeqsOver(_, _)
SeqsOver(S, n) ==
    IF n = 0 THEN { << >> }
    ELSE LET shorter == SeqsOver(S, n - 1)
         IN  shorter \cup { Append(s, x) : s \in { q \in shorter : Len(q) = n - 1 }, x \in S }

Range(s) == { s[i] : i \in DOMAIN s }

TickerLists ==
    { s \in SeqsOver(Tickers, Cardinality(Tickers)) : Cardinality(Range(s)) = Len(s) }

Providers == [Tickers -> HistOutcomes]
Infos     == [Tickers -> InfoOutcomes]
InfosOk   == [Tickers -> {"Tech"}]

EmptyDict == [t \in {} |-> None]

DictPut(d, k, v) == [x \in (DOMAIN d) \cup {k} |-> IF x = k THEN v ELSE d[x]]

----------------------------------------------------------------------------
(* load_prices_and_sector: one loop iteration per step *)

\* faulty variant: the first failing ticker ends the loop
LoadTickerAbort ==
    /\ pc = "load"
    /\ li <= Len(tickers)
    /\ LET t == tickers[li]
           r == Lookup(t)
       IN  /\ prices'  = DictPut(prices, t, r[1])
           /\ sectors' = DictPut(sectors, t, r[2])
           /\ li' = IF LookupFailed(t) THEN Len(tickers) + 1 ELSE li + 1
    /\ UNCHANGED << pc, variant, tickers, worldVars, calcVars, tradeVars >>

\* for t in tickers: try: ... except: prices[t] = None; sectors[t] = "Unknown"
LoadTicker ==
    /\ pc = "load"
    /\ li <= Len(tickers)
    /\ LET t == tickers[li]
           r == Lookup(t)
       IN  /\ prices'  = DictPut(prices, t, r[1])
           /\ sectors' = DictPut(sectors, t, r[2])
           /\ li' = li + 1
    /\ UNCHANGED << pc, variant, tickers, worldVars, calcVars, tradeVars >>

\* return prices, sectors
LoadReturn ==
    /\ pc = "load"
    /\ li > Len(tickers)
    /\ pc' = "loaded"
    /\ UNCHANGED << loadVars, worldVars, calcVars, tradeVars >>

\* the dicts load_prices_and_sector returns for a collection of tickers
\* (src/portfolio/portfolio8.py), as calculate_portfolio receives them
LoadedPrices(ts) == [t \in ts |-> LookupNew(t)[1]]

----------------------------------------------------------------------------
(* calculate_portfolio *)

AssetTypes  == {"stock", "crypto", "cash"}
ShareCounts == 0..MaxShares
BuyPrices   == {0, 20}

HoldingRows ==
    [ticker : Tickers, asset_type : AssetTypes, shares : ShareCounts,
     buy_price : BuyPrices, currency : Currencies]

Money(x) == x * FEE_RATE_DEN

IsEquity(r) == r.asset_type \in {"stock", "crypto"}

\* df[df["asset_type"].isin(["stock","crypto"])]["ticker"].unique()
TickersTarget(table) == { table[i].ticker : i \in { j \in DOMAIN table : IsEquity(table[j]) } }

\* faulty variant: the fee is charged on every row, cash included
ValueRowFeeOnAll(r, pr) ==
    LET fee          == r.buy_price * r.shares * FEE_RATE_NUM
        prev_close   == IF r.ticker \in DOMAIN pr THEN pr[r.ticker] ELSE None
        market_value == IF IsEquity(r) THEN OptMul(Some(Money(r.shares)), prev_close)
                        ELSE IF r.asset_type = "cash" THEN Some(Money(r.shares))
                        ELSE Some(0)
        cost_basis   == IF r.asset_type = "cash" THEN Some(Money(r.shares) + fee)
                        ELSE IF IsEquity(r) THEN Some(Money(r.shares * r.buy_price) + fee)
                        ELSE Some(0)
        pnl_abs      == OptSub(market_value, cost_basis)
        fx_to_jpy    == FxGet(r.currency)
        mv_jpy       == OptMul(market_value, Some(fx_to_jpy))
        cost_jpy     == OptMul(cost_basis, Some(fx_to_jpy))
    IN  [ticker |-> r.ticker, asset_type |-> r.asset_type, shares |-> r.shares,
         buy_price |-> r.buy_price, currency |-> r.currency,
         fee |-> fee, prev_close |-> prev_close,
         market_value |-> market_value, cost_basis |-> cost_basis,
         pnl_abs |-> pnl_abs, pnl_pct |-> FloatPct(pnl_abs, cost_basis),
         fx_to_jpy |-> fx_to_jpy, mv_jpy |-> mv_jpy, cost_jpy |-> cost_jpy,
         pnl_jpy |-> OptSub(mv_jpy, cost_jpy)]

\* faulty variant: cost_basis leaves the fee out
ValueRowFeeLeftOut(r, pr) ==
    LET fee          == IF IsEquity(r) THEN r.buy_price * r.shares * FEE_RATE_NUM ELSE 0
        prev_close   == IF r.ticker \in DOMAIN pr THEN pr[r.ticker] ELSE None
        market_value == IF IsEquity(r) THEN OptMul(Some(Money(r.shares)), prev_close)
                        ELSE IF r.asset_type = "cash" THEN Some(Money(r.shares))
                        ELSE Some(0)
        cost_basis   == IF IsEquity(r) THEN Some(Money(r.shares * r.buy_price))
                        ELSE IF r.asset_type = "cash" THEN Some(Money(r.shares))
                        ELSE Some(0)
        pnl_abs      == OptSub(market_value, cost_basis)
        fx_to_jpy    == FxGet(r.currency)
        mv_jpy       == OptMul(market_value, Some(fx_to_jpy))
        cost_jpy     == OptMul(cost_basis, Some(fx_to_jpy))
    IN  [ticker |-> r.ticker, asset_type |-> r.asset_type, shares |-> r.shares,
         buy_price |-> r.buy_price, currency |-> r.currency,
         fee |-> fee, prev_close |-> prev_close,
         market_value |-> market_value, cost_basis |-> cost_basis,
         pnl_abs |-> pnl_abs, pnl_pct |-> FloatPct(pnl_abs, cost_basis),
         fx_to_jpy |-> fx_to_jpy, mv_jpy |-> mv_jpy, cost_jpy |-> cost_jpy,
         pnl_jpy |-> OptSub(mv_jpy, cost_jpy)]

\* the columns of one row after lines 72-96
ValueRow(r, pr) ==
    LET \* df["fee"] = 0; df.loc[mask_equity, "fee"] = buy_price * shares * FEE_RATE
        fee          == IF IsEquity(r) THEN r.buy_price * r.shares * FEE_RATE_NUM ELSE 0
        \* df["prev_close"] = df["ticker"].map(prices)
        prev_close   == IF r.ticker \in DOMAIN pr THEN pr[r.ticker] ELSE None
        \* df["market_value"] = 0, then the equity mask, then the cash mask
        market_value == IF IsEquity(r) THEN OptMul(Some(Money(r.shares)), prev_close)
                        ELSE IF r.asset_type = "cash" THEN Some(Money(r.shares))
                        ELSE Some(0)
        cost_basis   == IF IsEquity(r) THEN Some(Money(r.shares * r.buy_price) + fee)
                        ELSE IF r.asset_type = "cash" THEN Some(Money(r.shares))
                        ELSE Some(0)
        pnl_abs      == OptSub(market_value, cost_basis)
        \* df["currency"].map(FX_TO_JPY).fillna(1.0)
        fx_to_jpy    == FxGet(r.currency)
        mv_jpy       == OptMul(market_value, Some(fx_to_jpy))
        cost_jpy     == OptMul(cost_basis, Some(fx_to_jpy))
    IN  [ticker |-> r.ticker, asset_type |-> r.asset_type, shares |-> r.shares,
         buy_price |-> r.buy_price, currency |-> r.currency,
         fee |-> fee, prev_close |-> prev_close,
         market_value |-> market_value, cost_basis |-> cost_basis,
         pnl_abs |-> pnl_abs, pnl_pct |-> FloatPct(pnl_abs, cost_basis),
         fx_to_jpy |-> fx_to_jpy, mv_jpy |-> mv_jpy, cost_jpy |-> cost_jpy,
         pnl_jpy |-> OptSub(mv_jpy, cost_jpy)]

\* Series.sum(): NaN cells are skipped
RECURSIVE SumSkipNa(_)
SumSkipNa(cells) ==
    IF cells = << >> THEN 0
    ELSE (IF Head(cells).some THEN Head(cells).val ELSE 0) + SumSkipNa(Tail(cells))

\* faulty variant: the total is taken over mv_jpy
TotalPnlOfMarketValue(table) == SumSkipNa([i \in DOMAIN table |-> table[i].mv_jpy])

\* total_pnl = df["pnl_jpy"].sum()
TotalPnl(table) == SumSkipNa([i \in DOMAIN table |-> table[i].pnl_jpy])

\* df["pnl_jpy"] / total_pnl * 100 if total_pnl != 0 else 0
PnlContrib(row, total_pnl) ==
    IF total_pnl # 0 THEN FloatPct(row.pnl_jpy, Some(total_pnl)) ELSE Num(0, 1)

WithContrib(row, total_pnl) ==
    [f \in (DOMAIN row) \cup {"pnl_contrib", "pnl_over_mv_pct"} |->
        IF f = "pnl_contrib" THEN PnlContrib(row, total_pnl)
        ELSE IF f = "pnl_over_mv_pct" THEN FloatPct(row.pnl_jpy, row.mv_jpy)
        ELSE row[f]]

CalculatePortfolio ==
    /\ pc = "calc"
    /\ LET pr     == LoadedPrices(TickersTarget(df))
           valued == [i \in DOMAIN df |-> ValueRow(df[i], pr)]
           total  == TotalPnl(valued)
       IN  df' = [i \in DOMAIN df |-> WithContrib(valued[i], total)]
    /\ pc' = "calculated"
    /\ UNCHANGED << loadVars, worldVars, tradeVars >>

----------------------------------------------------------------------------
(* apply_trades (src/portfolio8.py) *)

Today == MaxDay

StockOrCash     == {"stock", "cash"}
TradeCurrencies == {"USD"}

SnapshotRows ==
    [ticker : Tickers, asset_type : StockOrCash, shares : {1}, currency : Currencies]

TradeRows(actions) ==
    [date : 1..MaxDay, ticker : Tickers, action : actions, shares : 1..MaxQty,
     currency : TradeCurrencies]

\* holdings.get(ticker, 0)
DictGet(d, k) == IF k \in DOMAIN d THEN d[k] ELSE 0

\* for _, row in df_portfolio.iterrows(): holdings[row["ticker"]] = row["shares"]
RECURSIVE SeedHoldings(_, _)
SeedHoldings(h, rows) ==
    IF rows = << >> THEN h
    ELSE SeedHoldings(DictPut(h, Head(rows).ticker, Head(rows).shares), Tail(rows))

\* df_trades.sort_values("date"): any order of the rows that is ascending in
\* date (the default sort is not stable)
SortedByDate(ledger) ==
    { [i \in DOMAIN ledger |-> ledger[p[i]]] : p \in
        { q \in Permutations(DOMAIN ledger) :
            \A i, j \in DOMAIN ledger : i < j => ledger[q[i]].date <= ledger[q[j]].date } }

RECURSIVE MinDate(_)
MinDate(ledger) ==
    IF Len(ledger) = 1 THEN ledger[1].date
    ELSE LET m == MinDate(Tail(ledger))
         IN  IF Head(ledger).date < m THEN Head(ledger).date ELSE m

\* the body of "for _, trade in trades_today.iterrows()"
ApplyTrade(h, trade) ==
    IF trade.action = "buy"
    THEN DictPut(h, trade.ticker, DictGet(h, trade.ticker) + trade.shares)
    ELSE IF trade.action = "sell"
    THEN DictPut(h, trade.ticker, DictGet(h, trade.ticker) - trade.shares)
    ELSE h

RECURSIVE ApplyTrades(_, _)
ApplyTrades(h, trades) ==
    IF trades = << >> THEN h
    ELSE ApplyTrades(ApplyTrade(h, Head(trades)), Tail(trades))

\* df_trades[df_trades["date"] == d]
TradesOn(ledger, d) == SelectSeq(ledger, LAMBDA tr : tr.date = d)

HasRow(ticker) == \E i \in DOMAIN df_portfolio : df_portfolio[i].ticker = ticker

\* df_portfolio[df_portfolio["ticker"]==ticker].iloc[0]
FirstRow(ticker) ==
    df_portfolio[CHOOSE i \in DOMAIN df_portfolio :
        /\ df_portfolio[i].ticker = ticker
        /\ \A j \in DOMAIN df_portfolio : df_portfolio[j].ticker = ticker => i <= j]

\* faulty variant: a stock is valued like cash, without its price
PositionValueNoPrice(ticker, qty) ==
    qty * FxGet(FirstRow(ticker).currency)

\* what one dict entry adds to total_value
PositionValue(ticker, qty) ==
    LET row == FirstRow(ticker)
    IN  IF row.asset_type = "stock"
        THEN IF hist_out[ticker].some
             THEN hist_out[ticker].val * FxGet(row.currency) * qty
             ELSE 0
        ELSE qty * FxGet(row.currency)

RECURSIVE SumPositions(_, _)
SumPositions(h, ks) ==
    IF ks = {} THEN 0
    ELSE LET k == CHOOSE x \in ks : TRUE
         IN  (IF h[k] = 0 THEN 0 ELSE PositionValue(k, h[k])) + SumPositions(h, ks \ {k})

TotalValue(h) == SumPositions(h, DOMAIN h)

\* .iloc[0] on an empty selection
RowMissing(h) == \E t \in DOMAIN h : h[t] # 0 /\ ~HasRow(t)

\* lines 37-47: parse and sort the ledger, build the date range, seed the dict
ApplyTradesStart ==
    /\ pc = "trades"
    /\ df_trades' \in SortedByDate(df_trades)
    /\ day' = MinDate(df_trades) - 1
    /\ holdings' = SeedHoldings(EmptyDict, df_portfolio)
    /\ history' = << >>
    /\ pc' = "replay"
    /\ UNCHANGED << df_portfolio, has_action, loadVars, worldVars, calcVars >>

\* lines 49-74: one iteration of "for d in dates"
ApplyTradesDay ==
    /\ pc = "replay"
    /\ day <= Today
    /\ LET trades_today == TradesOn(df_trades, day)
           replayed     == ApplyTrades(holdings, trades_today)
       IN  IF trades_today # << >> /\ ~has_action
           THEN /\ pc' = "KeyError"
                /\ UNCHANGED << holdings, history, day >>
           ELSE IF RowMissing(replayed)
           THEN /\ pc' = "IndexError"
                /\ holdings' = replayed
                /\ UNCHANGED << history, day >>
           ELSE /\ holdings' = replayed
                /\ history' = Append(history, TotalValue(replayed))
                /\ day' = day + 1
                /\ pc' = pc
    /\ UNCHANGED << df_portfolio, df_trades, has_action, loadVars, worldVars, calcVars >>

\* line 76
ApplyTradesReturn ==
    /\ pc = "replay"
    /\ day > Today
    /\ pc' = "done"
    /\ UNCHANGED << tradeVars, loadVars, worldVars, calcVars >>

----------------------------------------------------------------------------
(* Initial states and specifications *)

IdleLoad ==
    /\ variant = "new"
    /\ tickers = << >>
    /\ li = 1
    /\ prices = EmptyDict
    /\ sectors = EmptyDict

IdleCalc == df = << >>

IdleTrades ==
    /\ df_portfolio = << >>
    /\ df_trades = << >>
    /\ has_action = TRUE
    /\ holdings = EmptyDict
    /\ history = << >>
    /\ day = 0

InitLoad ==
    /\ pc = "load"
    /\ variant \in {"new", "old"}
    /\ tickers \in TickerLists
    /\ li = 1
    /\ prices = EmptyDict
    /\ sectors = EmptyDict
    /\ hist_out \in Providers
    /\ info_out \in Infos
    /\ usd_jpy = 155
    /\ IdleCalc
    /\ IdleTrades

InitCalc ==
    /\ pc = "calc"
    /\ df \in SeqsOver(HoldingRows, 2) \ { << >> }
    /\ hist_out \in Providers
    /\ info_out \in InfosOk
    /\ usd_jpy \in UsdRates
    /\ IdleLoad
    /\ IdleTrades

InitTrades ==
    /\ pc = "trades"
    /\ df_portfolio \in SeqsOver(SnapshotRows, 2) \ { << >> }
    /\ has_action \in BOOLEAN
    /\ df_trades \in SeqsOver(TradeRows(IF has_action THEN {"buy", "sell"} ELSE {"n/a"}),
                              2) \ { << >> }
    /\ holdings = EmptyDict
    /\ history = << >>
    /\ day = 0
    /\ hist_out \in Providers
    /\ info_out \in InfosOk
    /\ usd_jpy = 155
    /\ IdleLoad
    /\ IdleCalc

NextLoad   == LoadTicker \/ LoadReturn
NextCalc   == CalculatePortfolio
NextTrades == ApplyTradesStart \/ ApplyTradesDay \/ ApplyTradesReturn

Init == InitLoad \/ InitCalc \/ InitTrades
Next == LoadTicker \/ LoadReturn \/ CalculatePortfolio
        \/ ApplyTradesStart \/ ApplyTradesDay \/ ApplyTradesReturn

Spec       == Init /\ [][Next]_vars
SpecLoad   == InitLoad /\ [][NextLoad]_vars
SpecCalc   == InitCalc /\ [][NextCalc]_vars
SpecTrades == InitTrades /\ [][NextTrades]_vars

----------------------------------------------------------------------------
(* Properties *)

Calculated == pc = "calculated"
Replaying  == pc \in {"replay", "done"} /\ history # << >>

\* the date of the i-th entry of the series: dates start one day before the
\* earliest trade
DateOf(i) == MinDate(df_trades) - 1 + (i - 1)

Sign(trade) == IF trade.action = "buy" THEN 1 ELSE IF trade.action = "sell" THEN 0 - 1 ELSE 0

\* total the snapshot alone is worth: the series without any trade
NoTradeTotal == TotalValue(SeedHoldings(EmptyDict, df_portfolio))

\* JPY value of one share of a ticker as the replay prices it
UnitValue(ticker) ==
    IF ~HasRow(ticker) THEN 0
    ELSE LET row  == FirstRow(ticker)
             rate == IF row.currency = "USD" THEN usd_jpy ELSE 1
         IN  IF row.asset_type # "stock" THEN rate
             ELSE IF hist_out[ticker].some THEN hist_out[ticker].val * rate
             ELSE 0

TradeFxRate(trade) == IF trade.currency = "USD" THEN usd_jpy ELSE 1

\* sum over trades of +-shares * fx_rate of the trade's currency
RECURSIVE SumByFxRate(_)
SumByFxRate(trades) ==
    IF trades = << >> THEN 0
    ELSE Sign(Head(trades)) * Head(trades).shares * TradeFxRate(Head(trades))
         + SumByFxRate(Tail(trades))

\* sum over trades of +-shares * JPY value of one share of the ticker
RECURSIVE SumByUnitValue(_)
SumByUnitValue(trades) ==
    IF trades = << >> THEN 0
    ELSE Sign(Head(trades)) * Head(trades).shares * UnitValue(Head(trades).ticker)
         + SumByUnitValue(Tail(trades))

C2_NoSilentNegativeCount ==
    pc \in {"replay", "done"} => \A t \in DOMAIN holdings : holdings[t] >= 0

\* C3: a cash row is worth its shares: market_value = cost_basis = shares,
\* fee = 0 and pnl_abs = 0, whatever its ticker, buy_price, currency or price.
C3_CashRowIsWorthItsShares ==
    Calculated =>
        \A i \in DOMAIN df :
            df[i].asset_type = "cash" =>
                /\ df[i].market_value = Some(Money(df[i].shares))
                /\ df[i].cost_basis = Some(Money(df[i].shares))
                /\ df[i].fee = 0
                /\ df[i].pnl_abs = Some(0)

C3_Witness ==
    /\ Calculated
    /\ \E i \in DOMAIN df :
          /\ df[i].asset_type = "cash"
          /\ df[i].shares > 0
          /\ df[i].buy_price > 0
          /\ df[i].prev_close.some
          /\ df[i].currency = "USD"
          /\ df[i].pnl_abs = Some(0)

\* C4: a stock or crypto row with a known price has
\* fee = buy_price * shares * FEE_RATE, cost_basis = shares * buy_price + fee,
\* market_value = shares * prev_close and pnl_abs = market_value - cost_basis
\* (money in units of 1/FEE_RATE_DEN, where FEE_RATE = FEE_RATE_NUM/FEE_RATE_DEN).
C4_EquityRowColumns ==
    Calculated =>
        \A i \in DOMAIN df :
            (df[i].asset_type \in {"stock", "crypto"} /\ df[i].prev_close.some) =>
                /\ df[i].fee = df[i].buy_price * df[i].shares * FEE_RATE_NUM
                /\ df[i].cost_basis = Some(Money(df[i].shares * df[i].buy_price) + df[i].fee)
                /\ df[i].market_value = Some(Money(df[i].shares * df[i].prev_close.val))
                /\ df[i].pnl_abs
                     = Some(Money(df[i].shares * df[i].prev_close.val)
                            - (Money(df[i].shares * df[i].buy_price) + df[i].fee))

\* the scenario of the specification at 1/100 of its prices and shares:
\* 1 share bought at 20, last close 21: fee 0.099, cost basis 20.099,
\* market value 21, P&L 0.901
C4_Witness ==
    /\ Calculated
    /\ \E i \in DOMAIN df :
          /\ df[i].asset_type = "stock"
          /\ df[i].shares = 1
          /\ df[i].buy_price = 20
          /\ df[i].prev_close = Some(21)
          /\ df[i].fee = 9900
          /\ df[i].cost_basis = Some(2009900)
          /\ df[i].market_value = Some(2100000)
          /\ df[i].pnl_abs = Some(90100)

RECURSIVE SumPnlJpy(_)
SumPnlJpy(table) ==
    IF table = << >> THEN 0
    ELSE (IF Head(table).pnl_jpy.some THEN Head(table).pnl_jpy.val ELSE 0)
         + SumPnlJpy(Tail(table))

RECURSIVE SumContribNum(_)
SumContribNum(table) ==
    IF table = << >> THEN 0
    ELSE (IF Head(table).pnl_contrib.kind = "num" THEN Head(table).pnl_contrib.num ELSE 0)
         + SumContribNum(Tail(table))

\* C5: with total_pnl_jpy # 0 every contribution is pnl_jpy / total_pnl_jpy
\* and the contributions add up to the whole (100 percent); with
\* total_pnl_jpy = 0 every row's contribution is 0; no contribution is the
\* result of a division by zero.  (A row without a price has no pnl_jpy; it
\* is left out of the total and of the sum, as Series.sum() leaves it out.)
C5_ContributionsSumToWhole ==
    Calculated =>
        LET total == SumPnlJpy(df)
        IN  /\ total # 0 =>
                 /\ \A i \in DOMAIN df :
                       df[i].pnl_jpy.some => df[i].pnl_contrib = Num(df[i].pnl_jpy.val, total)
                 /\ SumContribNum(df) = total
            /\ total = 0 => \A i \in DOMAIN df : df[i].pnl_contrib = Num(0, 1)
            /\ \A i \in DOMAIN df :
                  /\ df[i].pnl_contrib.kind \notin {"inf", "-inf"}
                  /\ df[i].pnl_contrib.kind = "num" => df[i].pnl_contrib.den # 0
                  /\ df[i].pnl_contrib.kind = "nan" => ~df[i].pnl_jpy.some

C5_Witness ==
    /\ Calculated
    /\ Len(df) = 2
    /\ SumPnlJpy(df) # 0
    /\ \A i \in DOMAIN df :
          /\ df[i].pnl_contrib.kind = "num"
          /\ df[i].pnl_contrib.num # 0
    /\ df[1].pnl_contrib.num + df[2].pnl_contrib.num = df[1].pnl_contrib.den

\* C6: a row whose cost_basis is 0 reports pnl_pct as not applicable: not NaN,
\* not an infinity.
C6_ZeroCostBasisIsNotApplicable ==
    Calculated =>
        \A i \in DOMAIN df :
            df[i].cost_basis = Some(0) => df[i].pnl_pct.kind \notin {"nan", "inf", "-inf"}

\* C7: a holding whose currency is not a key of the FX table, or is JPY, is
\* converted with 1: in calculate_portfolio mv_jpy = market_value and
\* cost_jpy = cost_basis, in apply_trades its shares (times the price of a
\* stock) enter the total unconverted; neither run fails for it.
C7_UnknownCurrencyIsPassedThrough ==
    /\ Calculated =>
          \A i \in DOMAIN df :
              df[i].currency # "USD" =>
                  /\ df[i].fx_to_jpy = 1
                  /\ df[i].mv_jpy = df[i].market_value
                  /\ df[i].cost_jpy = df[i].cost_basis
    /\ Replaying =>
          \A t \in DOMAIN holdings :
              (HasRow(t) /\ FirstRow(t).currency # "USD" /\ holdings[t] # 0) =>
                  history[Len(history)]
                    - TotalValue([x \in (DOMAIN holdings) \ {t} |-> holdings[x]])
                    = holdings[t] * (IF FirstRow(t).asset_type # "stock" THEN 1
                                     ELSE IF hist_out[t].some THEN hist_out[t].val
                                     ELSE 0)
    /\ pc = "IndexError" => \E t \in DOMAIN holdings : ~HasRow(t)

C7_Witness ==
    /\ Calculated
    /\ \E i \in DOMAIN df :
          /\ df[i].currency = "EUR"
          /\ df[i].asset_type = "stock"
          /\ df[i].market_value.some
          /\ df[i].market_value.val > 0
          /\ df[i].mv_jpy = df[i].market_value
          /\ df[i].cost_basis.val > 0
          /\ df[i].cost_jpy = df[i].cost_basis

\* what a ticker's own lookups give when nothing raises
OwnSector(t) ==
    IF variant = "new" /\ t \in CryptoTickers THEN "Crypto"
    ELSE IF info_out[t] \in {"notdict", "nosector"} THEN "Unknown"
    ELSE info_out[t]

\* C8: load_prices_and_sector always returns, with an entry for every ticker;
\* a ticker whose lookup failed has price None and sector "Unknown"; every
\* other ticker has the price and sector its own lookups give.
C8_LoaderIsTotalAndPerTicker ==
    /\ pc \in {"load", "loaded"} =>
          /\ DOMAIN prices = { tickers[i] : i \in 1..(li - 1) }
          /\ DOMAIN sectors = DOMAIN prices
    /\ pc = "loaded" =>
          /\ DOMAIN prices = Range(tickers)
          /\ \A t \in Range(tickers) :
                /\ LookupFailed(t) => (prices[t] = None /\ sectors[t] = "Unknown")
                /\ ~LookupFailed(t) =>
                      (prices[t] = hist_out[t] /\ prices[t].some /\ sectors[t] = OwnSector(t))

C8_Witness ==
    /\ pc = "loaded"
    /\ Len(tickers) = 2
    /\ LookupFailed(tickers[1])
    /\ ~LookupFailed(tickers[2])
    /\ prices[tickers[1]] = None
    /\ prices[tickers[2]].some
    /\ sectors[tickers[2]] \in {"Tech", "Crypto"}

\* C9: a ledger without the action column never makes apply_trades raise.
C9_MissingActionColumnIsNotFatal ==
    ~has_action => pc \notin {"KeyError", "IndexError"}

\* sum of shares over all holding rows of a ticker
RECURSIVE SumShares(_, _)
SumShares(rows, ticker) ==
    IF rows = << >> THEN 0
    ELSE (IF Head(rows).ticker = ticker THEN Head(rows).shares ELSE 0)
         + SumShares(Tail(rows), ticker)

RECURSIVE NetTraded(_, _, _)
NetTraded(trades, ticker, d) ==
    IF trades = << >> THEN 0
    ELSE (IF Head(trades).ticker = ticker /\ Head(trades).date <= d
          THEN Sign(Head(trades)) * Head(trades).shares ELSE 0)
         + NetTraded(Tail(trades), ticker, d)

\* C10: the share count that valued the latest date d is the sum of the
\* ticker's shares over all its holding rows, plus the buys and minus the
\* sells dated on or before d.
C10_CountIsSeedSumPlusNetTrades ==
    (Replaying /\ has_action) =>
        \A t \in Tickers :
            DictGet(holdings, t)
              = SumShares(df_portfolio, t) + NetTraded(df_trades, t, day - 1)

====
